---- MODULE Spec2Model ----
(***************************************************************************)
(* Model of search-agent.py: the two FastAPI handlers (handle_query,       *)
(* handle_scrape) and the two agent tool callbacks (web_search,            *)
(* scrape_website).  The agent runtime, the MCP tool server and the Brave  *)
(* HTTP API are the environment: what they return or raise is chosen       *)
(* nondeterministically from small sets.  Python strings are TLA+ strings  *)
(* (Len, \o and SubSeq work on them character by character).              *)
(***************************************************************************)
EXTENDS Integers, Sequences, FiniteSets, TLC

VARIABLES
    stack,      \* request -> call stack of the /scrape coroutine (handler frame, then tool frames)
    resp,       \* request -> HTTP response of /scrape, NoResp until produced
    sessions,   \* open tool-server sessions, each [owner, depth]
    qreq,       \* request -> state of a /query request
    search      \* state of one web_search call

vars == <<stack, resp, sessions, qreq, search>>

-----------------------------------------------------------------------------
(* Bounds of the model *)

NumRequests == 2      \* concurrent requests in the concurrent specifications
MaxToolCalls == 1     \* scrape_website invocations one agent run may make
MaxDepth == 1         \* nesting of scrape_website inside scrape_website's own agent run
MaxResults == 3       \* length of the upstream search result list
MaxCount == 2         \* largest requested count

Requests == 1 .. NumRequests

-----------------------------------------------------------------------------
(* Python values: a type tag, the text of a scalar, the items of a dict    *)
(* (in insertion order).                                                   *)

PyNone == [t |-> "NoneType", s |-> "", items |-> <<>>]
PyStr(x) == [t |-> "str", s |-> x, items |-> <<>>]
PyInt(x) == [t |-> "int", s |-> ToString(x), items |-> <<>>]
PyObj(cls) == [t |-> cls, s |-> "", items |-> <<>>]
PyDict(kvs) == [t |-> "dict", s |-> "", items |-> kvs]
KV(key, val) == [k |-> key, v |-> val]

IsInstanceStr(v) == v.t = "str"
IsInstanceDict(v) == v.t = "dict"

\* key in d
HasKey(d, key) == \E i \in 1 .. Len(d.items) : d.items[i].k = key

\* d[key]
GetItem(d, key) == d.items[CHOOSE i \in 1 .. Len(d.items) : d.items[i].k = key].v

\* str(v) of a scalar, as an f-string formats it
ScalarStr(v) ==
    CASE v.t = "str" -> v.s
      [] v.t = "int" -> v.s
      [] v.t = "NoneType" -> "None"
      [] OTHER -> "<" \o v.t \o " object>"

\* repr(v) of a scalar, as it appears inside str(dict)
ScalarRepr(v) == IF v.t = "str" THEN "'" \o v.s \o "'" ELSE ScalarStr(v)

RECURSIVE ItemsRepr(_)
ItemsRepr(kvs) ==
    IF kvs = <<>> THEN ""
    ELSE "'" \o Head(kvs).k \o "': " \o ScalarRepr(Head(kvs).v)
         \o (IF Len(kvs) > 1 THEN ", " ELSE "") \o ItemsRepr(Tail(kvs))

\* str(v)
Str(v) == IF v.t = "dict" THEN "{" \o ItemsRepr(v.items) \o "}" ELSE ScalarStr(v)

\* f"{type(v)}"
TypeStr(v) == "<class '" \o v.t \o "'>"

\* s[:n]
Slice(s, n) == SubSeq(s, 1, IF Len(s) < n THEN Len(s) ELSE n)

\* s.startswith(p)
StartsWith(s, p) == Len(s) >= Len(p) /\ SubSeq(s, 1, Len(p)) = p

RECURSIVE Repeat(_, _)
Repeat(s, n) == IF n = 0 THEN "" ELSE s \o Repeat(s, n - 1)

-----------------------------------------------------------------------------
(* Exceptions and HTTP responses *)

NoExc == [cls |-> "none", msg |-> "", status |-> 0]
Exc(c, m) == [cls |-> c, msg |-> m, status |-> 0]
HTTPException(code, detail) == [cls |-> "HTTPException", msg |-> detail, status |-> code]

NoResp == [status |-> 0, content |-> PyNone, detail |-> ""]
Ok200(v) == [status |-> 200, content |-> v, detail |-> ""]
ErrorResponse(e) == [status |-> e.status, content |-> PyNone, detail |-> e.msg]

-----------------------------------------------------------------------------
(* scrape_website *)

StructureSliceLen == 100

\* what the callback returns, and the branch that returned it
ToolOut(v, p) == [ret |-> v, path |-> p]

\* variant: the markdown value cut like the unexpected-structure text
SlicedMarkdown(result) ==
    ToolOut(PyStr(Slice(Str(GetItem(result, "markdown")), StructureSliceLen)), "markdown")

\* lines 119-121
MarkdownBranch(result) == ToolOut(GetItem(result, "markdown"), "markdown")

\* variant: another wording of the error string
UnprefixedError(result) ==
    ToolOut(PyStr("firecrawl_scrape failed: " \o Str(GetItem(result, "error"))), "error")

\* lines 122-125
ErrorBranch(result) ==
    ToolOut(PyStr("Error from firecrawl_scrape: " \o Str(GetItem(result, "error"))), "error")

\* lines 126-129
StructureBranch(result) ==
    ToolOut(PyStr("Unexpected response structure from scraping service: "
                  \o Slice(Str(result), StructureSliceLen) \o "..."), "structure")

\* lines 130-133
TypeBranch(result) ==
    ToolOut(PyStr("Unexpected response type from scraping service: " \o TypeStr(result)), "type")

\* lines 118-133: the shape test of the inner run's result
ScrapeWebsiteInspect(result) ==
    IF IsInstanceDict(result)
    THEN IF HasKey(result, "markdown") THEN MarkdownBranch(result)
         ELSE IF HasKey(result, "error") THEN ErrorBranch(result)
         ELSE StructureBranch(result)
    ELSE TypeBranch(result)

\* variant: another wording of the exception string
RenamedPrefixExcept(url, e) ==
    ToolOut(PyStr("Error in scrape_website tool while trying to scrape URL '"
                  \o url \o "': " \o e.msg), "exception")

\* lines 135-140: any exception of the try block becomes a string
ScrapeWebsiteExcept(url, e) ==
    ToolOut(PyStr("Error occurred within scrape_website tool while trying to scrape URL '"
                  \o url \o "': " \o e.msg), "exception")

-----------------------------------------------------------------------------
(* handle_scrape *)

\* lines 214-218
IsToolErrorString(content) ==
    /\ IsInstanceStr(content)
    /\ \/ StartsWith(content.s, "Error from firecrawl_scrape:")
       \/ StartsWith(content.s, "Error occurred within scrape_website tool")
       \/ StartsWith(content.s, "Unexpected response")

\* variant: only None counts as empty
NoneOnlyIsEmpty(content) == content = PyNone

\* line 222
IsEmptyContent(content) == content = PyNone \/ content = PyStr("")

\* lines 214-229: the exception raised by the inspection of the content, NoExc when it passes
InspectContent(content) ==
    IF IsToolErrorString(content)
    THEN HTTPException(500, content.s)
    ELSE IF IsEmptyContent(content)
    THEN HTTPException(500, "Agent failed to return scraped content.")
    ELSE NoExc

\* variant: no except HTTPException clause, every exception is rewrapped
WrapAllExcept(e) ==
    HTTPException(500, "An unexpected error occurred during the agent-driven scraping process: " \o e.msg)

\* lines 231-240: the except clauses of handle_scrape
HandleScrapeExcept(e) ==
    IF e.cls = "HTTPException"
    THEN e
    ELSE HTTPException(500, "An unexpected error occurred during the agent-driven scraping process: " \o e.msg)

\* lines 204-240: the response to an agent run that returned content
ScrapeResponseOf(content) ==
    IF InspectContent(content) # NoExc
    THEN ErrorResponse(HandleScrapeExcept(InspectContent(content)))
    ELSE Ok200(content)

-----------------------------------------------------------------------------
(* The /scrape coroutine: one frame per operation in progress.  The        *)
(* handler frame is at depth 1; each scrape_website invocation made by the *)
(* agent run of the frame below it is pushed above it.                     *)

NoLast == [called |-> FALSE, url |-> "", result |-> PyNone, exc |-> NoExc,
           ret |-> PyNone, path |-> ""]

NewFrame(o, u) == [op |-> o, pc |-> "enter", url |-> u, calls |-> 0, result |-> PyNone,
                   exc |-> NoExc, relayed |-> FALSE, last |-> NoLast]

Depth(r) == Len(stack[r])
Top(r) == stack[r][Depth(r)]
SetTop(r, f) == [stack EXCEPT ![r][Depth(r)] = f]
Session(r, d) == [owner |-> r, depth |-> d]

\* variant: the session closed after the run by a plain call, skipped when the run raises
LeakOnRaise(open, r, d, e) == IF e = NoExc THEN open \ {Session(r, d)} ELSE open

\* lines 113-114 and 201-202: leaving the async with block, on either path
CloseSession(open, r, d, e) == open \ {Session(r, d)}

\* line 187: a /scrape request arrives
ReceiveScrape(r, urls) ==
    /\ stack[r] = <<>>
    /\ resp[r] = NoResp
    /\ \E u \in urls : stack' = [stack EXCEPT ![r] = <<NewFrame("handle_scrape", u)>>]
    /\ UNCHANGED <<resp, sessions, qreq, search>>

\* lines 113 and 201: async with agent.run_mcp_servers() starts the tool server
EnterSession(r) ==
    /\ stack[r] # <<>>
    /\ Top(r).pc = "enter"
    /\ stack' = SetTop(r, [Top(r) EXCEPT !.pc = "run"])
    /\ sessions' = sessions \cup {Session(r, Depth(r))}
    /\ UNCHANGED <<resp, qreq, search>>

\* lines 113 and 201: the tool server fails to start; no session was opened
EnterSessionFails(r, errors) ==
    /\ stack[r] # <<>>
    /\ Top(r).pc = "enter"
    /\ \E e \in errors : stack' = SetTop(r, [Top(r) EXCEPT !.pc = "raised", !.exc = e])
    /\ UNCHANGED <<resp, sessions, qreq, search>>

\* lines 94-106: the agent run of the top frame invokes the scrape_website tool
AgentCallsTool(r, urls, maxCalls, maxDepth) ==
    /\ stack[r] # <<>>
    /\ Top(r).pc = "run"
    /\ Top(r).calls < maxCalls
    /\ Depth(r) <= maxDepth
    /\ \E u \in urls :
         stack' = [stack EXCEPT ![r] =
                      Append(SetTop(r, [Top(r) EXCEPT !.calls = @ + 1])[r],
                             NewFrame("scrape_website", u))]
    /\ UNCHANGED <<resp, sessions, qreq, search>>

\* lines 114 and 202: agent.run returns a value of the runtime's choosing
AgentRunReturns(r, values) ==
    /\ stack[r] # <<>>
    /\ Top(r).pc = "run"
    /\ \E v \in values :
         stack' = SetTop(r, [Top(r) EXCEPT !.pc = "exit", !.result = v])
    /\ UNCHANGED <<resp, sessions, qreq, search>>

\* line 202: the agent returns the output of the tool as its final output
AgentRelaysTool(r) ==
    /\ stack[r] # <<>>
    /\ Top(r).pc = "run"
    /\ Top(r).op = "handle_scrape"
    /\ Top(r).last.called
    /\ stack' = SetTop(r, [Top(r) EXCEPT !.pc = "exit", !.result = Top(r).last.ret,
                                          !.relayed = TRUE])
    /\ UNCHANGED <<resp, sessions, qreq, search>>

\* lines 114 and 202: agent.run raises
AgentRunRaises(r, errors) ==
    /\ stack[r] # <<>>
    /\ Top(r).pc = "run"
    /\ \E e \in errors : stack' = SetTop(r, [Top(r) EXCEPT !.pc = "exit", !.exc = e])
    /\ UNCHANGED <<resp, sessions, qreq, search>>

\* lines 113-115 and 201-203: the async with block is left, after a return or a raise of
\* the run (the teardown itself is taken to succeed)
ExitSession(r) ==
    /\ stack[r] # <<>>
    /\ Top(r).pc = "exit"
    /\ sessions' = CloseSession(sessions, r, Depth(r), Top(r).exc)
    /\ stack' = SetTop(r, [Top(r) EXCEPT
                              !.pc = IF Top(r).exc = NoExc THEN "inspect" ELSE "raised"])
    /\ UNCHANGED <<resp, qreq, search>>

\* lines 107-140: what scrape_website returns from its frame
ScrapeWebsiteOut(f) ==
    IF f.pc = "raised" THEN ScrapeWebsiteExcept(f.url, f.exc) ELSE ScrapeWebsiteInspect(f.result)

\* lines 118-140: scrape_website returns to the agent run that invoked it
ToolReturns(r) ==
    /\ stack[r] # <<>>
    /\ Top(r).op = "scrape_website"
    /\ Top(r).pc \in {"inspect", "raised"}
    /\ LET f == Top(r)
           out == ScrapeWebsiteOut(f)
           below == stack[r][Depth(r) - 1]
       IN stack' = [stack EXCEPT ![r] =
                       Append(SubSeq(stack[r], 1, Depth(r) - 2),
                              [below EXCEPT !.last =
                                  [called |-> TRUE, url |-> f.url, result |-> f.result,
                                   exc |-> f.exc, ret |-> out.ret, path |-> out.path]])]
    /\ UNCHANGED <<resp, sessions, qreq, search>>

\* lines 204-240: handle_scrape produces its response
ScrapeResponds(r) ==
    /\ stack[r] # <<>>
    /\ Top(r).op = "handle_scrape"
    /\ Top(r).pc \in {"inspect", "raised"}
    /\ resp' = [resp EXCEPT ![r] =
                   IF Top(r).pc = "raised"
                   THEN ErrorResponse(HandleScrapeExcept(Top(r).exc))
                   ELSE ScrapeResponseOf(Top(r).result)]
    /\ stack' = SetTop(r, [Top(r) EXCEPT !.pc = "responded"])
    /\ UNCHANGED <<sessions, qreq, search>>

-----------------------------------------------------------------------------
(* What the environment supplies *)

Urls == {"https://a.example", "https://b.example/x"}

LongText == Repeat("0123456789", 12)

\* results of the inner agent.run of scrape_website
InnerResults ==
    { PyDict(<<KV("markdown", PyStr("# Title"))>>),
      PyDict(<<KV("markdown", PyStr("# Title")), KV("error", PyStr("partial"))>>),
      PyDict(<<KV("error", PyStr("rate limited")), KV("markdown", PyStr("Unexpected response"))>>),
      PyDict(<<KV("markdown", PyNone)>>),
      PyDict(<<KV("markdown", PyStr(""))>>),
      PyDict(<<KV("markdown", PyStr(LongText)), KV("metadata", PyStr("m"))>>),
      PyDict(<<KV("markdown", PyStr("Error from firecrawl_scrape: quoted"))>>),
      PyDict(<<KV("error", PyStr("rate limited"))>>),
      PyDict(<<KV("success", PyStr("false")), KV("error", PyInt(402))>>),
      PyDict(<<KV("error", PyStr(""))>>),
      PyDict(<<KV("status", PyStr("ok"))>>),
      PyDict(<<KV("html", PyStr(LongText)), KV("code", PyInt(200))>>),
      PyDict(<<>>),
      PyObj("pydantic_ai.agent.AgentRunResult"),
      PyStr("# Title"),
      PyNone }

\* final outputs of the agent run of handle_scrape that are not a relayed tool output
AgentOutputs ==
    { PyStr("# Title"),
      PyStr(""),
      PyNone,
      PyStr("Error from firecrawl_scrape: rate limited"),
      PyStr("Error from firecrawl_scrape:"),
      PyStr("Error occurred within scrape_website tool while trying to scrape URL 'u': boom"),
      PyStr("Unexpected response type from scraping service: <class 'str'>"),
      PyStr("Unexpected response"),
      PyStr("Unexpected"),
      PyStr("I could not scrape it. Error from firecrawl_scrape: rate limited"),
      PyStr(" "),
      PyInt(0),
      PyDict(<<KV("markdown", PyStr("# Title"))>>) }

RunErrors == { Exc("TimeoutError", ""), Exc("UnexpectedModelBehavior", "model call failed") }

\* the whole environment, for one request at a time
WholeEnv == [urls |-> Urls, results |-> InnerResults, outputs |-> AgentOutputs,
             errors |-> RunErrors, calls |-> MaxToolCalls, depth |-> MaxDepth]

\* the slice of the environment the concurrent specification draws from: one tool
\* invocation per request, so that the interleavings of NumRequests requests stay small
SliceEnv == [urls |-> {"https://a.example"},
             results |-> { PyDict(<<KV("markdown", PyStr("# Title"))>>),
                           PyDict(<<KV("error", PyStr("rate limited"))>>) },
             outputs |-> { PyStr("# Title"), PyNone },
             errors |-> { Exc("TimeoutError", "") },
             calls |-> 1, depth |-> 1]

-----------------------------------------------------------------------------
(* Specifications of /scrape *)

QueryIdle == [pc |-> "idle", query |-> "", runs |-> 0, out |-> PyNone, exc |-> NoExc,
              resp |-> NoResp]
SearchIdle == [pc |-> "idle", key |-> "", query |-> "", count |-> 0, requests |-> 0,
               response |-> [status |-> 0, shape |-> "", results |-> <<>>],
               ret |-> PyNone, exc |-> NoExc]

Init ==
    /\ stack = [r \in Requests |-> <<>>]
    /\ resp = [r \in Requests |-> NoResp]
    /\ sessions = {}
    /\ qreq = [r \in Requests |-> QueryIdle]
    /\ search = SearchIdle

ScrapeStep(r, env) ==
    \/ ReceiveScrape(r, env.urls)
    \/ EnterSession(r)
    \/ EnterSessionFails(r, env.errors)
    \/ AgentCallsTool(r, env.urls, env.calls, env.depth)
    \/ AgentRunReturns(r, IF Top(r).op = "handle_scrape" THEN env.outputs ELSE env.results)
    \/ AgentRelaysTool(r)
    \/ AgentRunRaises(r, env.errors)
    \/ ExitSession(r)
    \/ ToolReturns(r)
    \/ ScrapeResponds(r)

\* one /scrape request at a time, the whole environment
NextScrape == ScrapeStep(1, WholeEnv)
SpecScrape == Init /\ [][NextScrape]_vars

\* concurrent /scrape requests
NextSessions == \E r \in Requests : ScrapeStep(r, SliceEnv)
SpecSessions == Init /\ [][NextSessions]_vars

-----------------------------------------------------------------------------
(* handle_query *)

\* variant: handle_query inspecting its output as handle_scrape does
ScrapeStyleQueryResponse(out) == ScrapeResponseOf(out)

\* lines 175-183: QueryResponse(response=...) accepts a str; a validation error is an
\* Exception of the try block
QueryResponseOf(out) ==
    IF IsInstanceStr(out)
    THEN Ok200(out)
    ELSE ErrorResponse(HTTPException(500, "An error occurred: "
             \o "1 validation error for QueryResponse"))

\* lines 180-183
QueryExcept(e) == HTTPException(500, "An error occurred: " \o e.msg)

\* variant: the first failure of agent.run is retried
RetryOnRaise(q, e) ==
    IF q.runs = 0
    THEN [q EXCEPT !.runs = @ + 1]
    ELSE [q EXCEPT !.pc = "raised", !.exc = e, !.runs = @ + 1]

\* lines 172-174, 180: the awaited agent.run raised; control is in the except clause
QueryOnRaise(q, e) == [q EXCEPT !.pc = "raised", !.exc = e, !.runs = @ + 1]

Queries == {"", "what is tla+", "scrape https://a.example"}

QueryOutputs ==
    { PyStr("TLA+ is a specification language."),
      PyStr(""),
      PyStr("Error from firecrawl_scrape: rate limited"),
      PyStr("Unexpected response"),
      PyNone,
      PyInt(7) }

\* line 166: a /query request arrives
ReceiveQuery(r) ==
    /\ qreq[r].pc = "idle"
    /\ \E q \in Queries : qreq' = [qreq EXCEPT ![r] = [@ EXCEPT !.pc = "run", !.query = q]]
    /\ UNCHANGED <<stack, resp, sessions, search>>

\* lines 174-175: agent.run returns
QueryAgentReturns(r) ==
    /\ qreq[r].pc = "run"
    /\ \E v \in QueryOutputs :
         qreq' = [qreq EXCEPT ![r] = [@ EXCEPT !.pc = "returned", !.out = v, !.runs = @ + 1]]
    /\ UNCHANGED <<stack, resp, sessions, search>>

\* line 174: agent.run raises
QueryAgentRaises(r) ==
    /\ qreq[r].pc = "run"
    /\ \E e \in RunErrors : qreq' = [qreq EXCEPT ![r] = QueryOnRaise(@, e)]
    /\ UNCHANGED <<stack, resp, sessions, search>>

\* lines 177-183: handle_query produces its response
QueryResponds(r) ==
    /\ qreq[r].pc \in {"returned", "raised"}
    /\ qreq' = [qreq EXCEPT ![r] =
                   [@ EXCEPT !.pc = "responded",
                             !.resp = IF qreq[r].pc = "raised"
                                      THEN ErrorResponse(QueryExcept(qreq[r].exc))
                                      ELSE QueryResponseOf(qreq[r].out)]]
    /\ UNCHANGED <<stack, resp, sessions, search>>

NextQuery ==
    \E r \in Requests :
        \/ ReceiveQuery(r)
        \/ QueryAgentReturns(r)
        \/ QueryAgentRaises(r)
        \/ QueryResponds(r)

SpecQuery == Init /\ [][NextQuery]_vars

-----------------------------------------------------------------------------
(* web_search *)

DefaultCount == 5
HttpErrorFrom == 400
HttpErrorTo == 600

Whitespace == {" ", "\n", "\t", "\r"}

RECURSIVE LStrip(_)
LStrip(s) ==
    IF Len(s) > 0 /\ SubSeq(s, 1, 1) \in Whitespace THEN LStrip(SubSeq(s, 2, Len(s))) ELSE s

RECURSIVE RStrip(_)
RStrip(s) ==
    IF Len(s) > 0 /\ SubSeq(s, Len(s), Len(s)) \in Whitespace
    THEN RStrip(SubSeq(s, 1, Len(s) - 1))
    ELSE s

\* s.strip()
Strip(s) == LStrip(RStrip(s))

\* result.get(key, default)
DictGet(d, key, default) == IF HasKey(d, key) THEN GetItem(d, key) ELSE default

\* the outcome of the try block: a returned string or a raised exception
Returned(text) == [ret |-> PyStr(text), exc |-> NoExc]
Raised(e) == [ret |-> PyNone, exc |-> e]

\* lines 80-84: the loop over all of results, from index i
RECURSIVE FormatFrom(_, _)
FormatFrom(results, i) ==
    IF i > Len(results) THEN ""
    ELSE ToString(i) \o ". " \o Str(DictGet(results[i], "title", PyStr("No Title")))
         \o "\n   " \o Str(DictGet(results[i], "url", PyStr("No URL"))) \o "\n"
         \o FormatFrom(results, i + 1)

\* line 72: response.raise_for_status()
RaisesForStatus(status) == HttpErrorFrom <= status /\ status < HttpErrorTo

\* lines 72-86: the try block once requests.get has returned a response
SearchOnResponse(query, response) ==
    IF RaisesForStatus(response.status)
    THEN Raised(Exc("HTTPError", ToString(response.status) \o " Error"))
    ELSE IF response.shape = "notjson"
    THEN Raised(Exc("JSONDecodeError", "Expecting value: line 1 column 1 (char 0)"))
    ELSE IF response.shape = "toplist"
    THEN Raised(Exc("AttributeError", "'list' object has no attribute 'get'"))
    ELSE IF response.shape = "webnull"
    THEN Raised(Exc("AttributeError", "'NoneType' object has no attribute 'get'"))
    ELSE IF response.shape \in {"noweb", "resultsnull"} \/ response.results = <<>>
    THEN Returned("No search results found for '" \o query \o "'.")
    ELSE IF \E i \in 1 .. Len(response.results) : ~IsInstanceDict(response.results[i])
    THEN Raised(Exc("AttributeError", "'str' object has no attribute 'get'"))
    ELSE Returned(Strip("Search Results:\n" \o FormatFrom(response.results, 1)))

IsRequestException(e) ==
    e.cls \in {"ConnectionError", "Timeout", "HTTPError", "JSONDecodeError"}

\* variant: no except Exception clause
RequestExceptOnly(e) ==
    IF IsRequestException(e)
    THEN Returned("Error during Brave Search API request: " \o e.msg)
    ELSE Raised(e)

\* lines 88-91: the except clauses of web_search
SearchExcept(e) ==
    IF IsRequestException(e)
    THEN Returned("Error during Brave Search API request: " \o e.msg)
    ELSE Returned("An unexpected error occurred during web search: " \o e.msg)

\* lines 70-91
SearchTry(outcome) == IF outcome.exc = NoExc THEN outcome ELSE SearchExcept(outcome.exc)

\* line 56: not brave_api_key (unset, or set to the empty string)
KeyMissing(key) == key \in {"<unset>", ""}

SearchKeys == {"<unset>", "", "BSA-key"}
SearchQueries == {"tla+", "it's"}
Counts == (1 .. MaxCount) \cup {DefaultCount}
NetworkErrors == { Exc("ConnectionError", "Max retries exceeded"),
                   Exc("Timeout", "Read timed out. (read timeout=10)") }
Statuses == {200, 304, 404, 500}

\* entries of the upstream result list
ResultEntries ==
    { PyDict(<<KV("title", PyStr("TLA+ Home")), KV("url", PyStr("https://tla.example"))>>),
      PyDict(<<KV("title", PyStr("Wiki")), KV("url", PyStr("https://w.example/t")),
               KV("description", PyStr("d"))>>),
      PyDict(<<KV("url", PyStr("https://n.example"))>>),
      PyStr("not a mapping") }

RECURSIVE SeqsUpTo(_, _)
SeqsUpTo(S, n) ==
    IF n = 0 THEN {<<>>}
    ELSE LET shorter == SeqsUpTo(S, n - 1)
         IN shorter \cup {Append(q, x) : q \in {t \in shorter : Len(t) = n - 1}, x \in S}

HttpResponse(st, sh, rs) == [status |-> st, shape |-> sh, results |-> rs]

\* what the search API may answer
HttpResponses ==
    {HttpResponse(st, sh, <<>>) :
        st \in Statuses, sh \in {"notjson", "toplist", "webnull", "noweb", "resultsnull"}}
    \cup {HttpResponse(200, "results", rs) : rs \in SeqsUpTo(ResultEntries, MaxResults)}

NoResponse == HttpResponse(0, "", <<>>)

\* line 42: the agent runtime invokes web_search
CallWebSearch ==
    /\ search.pc = "idle"
    /\ \E k \in SearchKeys, q \in SearchQueries, c \in Counts :
         search' = [pc |-> "called", key |-> k, query |-> q, count |-> c, requests |-> 0,
                    response |-> NoResponse, ret |-> PyNone, exc |-> NoExc]
    /\ UNCHANGED <<stack, resp, sessions, qreq>>

\* lines 55-57: no credential, no request
MissingCredential ==
    /\ search.pc = "called"
    /\ KeyMissing(search.key)
    /\ search' = [search EXCEPT !.pc = "returned",
                     !.ret = PyStr("Error: BRAVE_API_KEY not found in environment variables.")]
    /\ UNCHANGED <<stack, resp, sessions, qreq>>

\* line 71: requests.get raises (network error, timeout)
HttpGetFails ==
    /\ search.pc = "called"
    /\ ~KeyMissing(search.key)
    /\ \E e \in NetworkErrors :
         LET out == SearchTry(Raised(e))
         IN search' = [search EXCEPT !.pc = IF out.exc = NoExc THEN "returned" ELSE "raised",
                                     !.requests = @ + 1, !.ret = out.ret, !.exc = out.exc]
    /\ UNCHANGED <<stack, resp, sessions, qreq>>

\* line 71: requests.get returns a response
HttpGetAnswers ==
    /\ search.pc = "called"
    /\ ~KeyMissing(search.key)
    /\ \E a \in HttpResponses :
         search' = [search EXCEPT !.pc = "answered", !.requests = @ + 1, !.response = a]
    /\ UNCHANGED <<stack, resp, sessions, qreq>>

\* lines 72-91: the response is checked, decoded and formatted
ProcessResponse ==
    /\ search.pc = "answered"
    /\ LET out == SearchTry(SearchOnResponse(search.query, search.response))
       IN search' = [search EXCEPT !.pc = IF out.exc = NoExc THEN "returned" ELSE "raised",
                                   !.ret = out.ret, !.exc = out.exc]
    /\ UNCHANGED <<stack, resp, sessions, qreq>>

NextSearch ==
    \/ CallWebSearch
    \/ MissingCredential
    \/ HttpGetFails
    \/ HttpGetAnswers
    \/ ProcessResponse

SpecSearch == Init /\ [][NextSearch]_vars

-----------------------------------------------------------------------------
(* The claims *)

Responded(r) == stack[r] # <<>> /\ stack[r][1].pc = "responded"

\* the agent run of handle_scrape completed without raising
RunCompleted(r) == Responded(r) /\ stack[r][1].exc = NoExc

FinalOutput(r) == stack[r][1].result

BeginsWithErrorPrefix(v) ==
    /\ v.t = "str"
    /\ \E p \in {"Error from firecrawl_scrape:", "Error occurred within scrape_website tool",
                 "Unexpected response"} : StartsWith(v.s, p)

\* every scrape_website invocation that has returned, as the frame below it recorded it
ToolCalls ==
    {l \in UNION {{stack[r][d].last : d \in 1 .. Len(stack[r])} : r \in Requests} : l.called}

\* the inner run of the invocation yielded a result (the try block raised nothing)
Yielded(l) == l.exc = NoExc

\* C1: a /scrape request whose agent run completed without raising and whose final
\* output is a string beginning with one of the three error prefixes is answered with
\* 500 and that very string as detail.
C1_ErrorPrefixIs500WithOutputAsDetail ==
    \A r \in Requests :
        (RunCompleted(r) /\ BeginsWithErrorPrefix(FinalOutput(r)))
            => (resp[r].status = 500 /\ resp[r].detail = FinalOutput(r).s)

C1_Witness ==
    \E r \in Requests :
        /\ RunCompleted(r)
        /\ FinalOutput(r) = PyStr("Unexpected response")
        /\ resp[r].status = 500

\* C2: a /scrape request whose agent run completed without raising and whose final
\* output is None or the empty string is answered with 500 and the fixed detail
\* "Agent failed to return scraped content.", whatever the URL.
C2_EmptyOutputIs500WithFixedDetail ==
    \A r \in Requests :
        (RunCompleted(r) /\ FinalOutput(r) \in {PyNone, PyStr("")})
            => (resp[r].status = 500
                /\ resp[r].detail = "Agent failed to return scraped content.")

C2_Witness ==
    \E r \in Requests :
        /\ RunCompleted(r)
        /\ FinalOutput(r) = PyStr("")
        /\ stack[r][1].url = "https://b.example/x"
        /\ resp[r].status = 500

\* C3: a /query request with a non-empty query whose agent run returned a string is
\* answered with 200 and that string, unchanged, as the response field.
C3_StringOutputIs200Unchanged ==
    \A r \in Requests :
        (qreq[r].pc = "responded" /\ qreq[r].query # "" /\ qreq[r].exc = NoExc
         /\ qreq[r].out.t = "str")
            => (qreq[r].resp.status = 200 /\ qreq[r].resp.content = qreq[r].out)

C3_Witness ==
    \E r \in Requests :
        /\ qreq[r].pc = "responded"
        /\ qreq[r].query # ""
        /\ qreq[r].out = PyStr("Error from firecrawl_scrape: rate limited")
        /\ qreq[r].resp.status = 200

\* C4: a /query request whose agent run raised is answered with 500 whose detail
\* carries the exception message, after exactly one agent run: the agent is never run
\* a second time for the request and no 200 is produced.
C4_RaiseIs500AfterOneRun ==
    \A r \in Requests :
        /\ qreq[r].runs <= 1
        /\ (qreq[r].pc = "responded" /\ qreq[r].exc # NoExc)
              => /\ qreq[r].resp.status = 500
                 /\ qreq[r].resp.detail = "An error occurred: " \o qreq[r].exc.msg
                 /\ qreq[r].runs = 1

C4_Witness ==
    \E r \in Requests :
        /\ qreq[r].pc = "responded"
        /\ qreq[r].exc = Exc("UnexpectedModelBehavior", "model call failed")
        /\ qreq[r].resp.status = 500
        /\ qreq[r].runs = 1

\* C5: web_search never raises to the agent runtime: every call that has ended has
\* returned a string; without a credential it returns an error string and no outbound
\* request is issued; a call issues at most one outbound request.
C5_WebSearchReturnsStringNeverRaises ==
    /\ search.pc # "raised"
    /\ search.pc = "returned" => search.ret.t = "str"
    /\ search.requests <= 1
    /\ (search.pc # "idle" /\ search.key \in {"<unset>", ""})
          => /\ search.requests = 0
             /\ search.pc = "returned" => StartsWith(search.ret.s, "Error: BRAVE_API_KEY")

C5_Witness ==
    /\ search.pc = "returned"
    /\ search.requests = 1
    /\ search.response.shape = "results"
    /\ StartsWith(search.ret.s, "An unexpected error occurred during web search: ")

\* the lines of a text
NewlinesAt(text) == {j \in 1 .. Len(text) : SubSeq(text, j, j) = "\n"}

Lines(text) ==
    LET nl == NewlinesAt(text)
        cut(k) == IF k = 0 THEN 0
                  ELSE IF k > Cardinality(nl) THEN Len(text) + 1
                  ELSE CHOOSE j \in nl : Cardinality({x \in nl : x < j}) = k - 1
    IN [k \in 1 .. Cardinality(nl) + 1 |-> SubSeq(text, cut(k - 1) + 1, cut(k) - 1)]

Digits == {"0", "1", "2", "3", "4", "5", "6", "7", "8", "9"}

\* a numbered entry line: digits, then ". "
IsNumbered(line) ==
    \E d \in 1 .. Len(line) :
        /\ \A j \in 1 .. d : SubSeq(line, j, j) \in Digits
        /\ StartsWith(SubSeq(line, d + 1, Len(line)), ". ")

NumberedAt(text) == {i \in 1 .. Len(Lines(text)) : IsNumbered(Lines(text)[i])}

Min(a, b) == IF a < b THEN a ELSE b

\* a search that succeeded with a list of N >= 1 results, each a mapping holding a title
\* and a URL
Formatted ==
    /\ search.pc = "returned"
    /\ search.response.status = 200
    /\ search.response.shape = "results"
    /\ Len(search.response.results) >= 1
    /\ \A i \in 1 .. Len(search.response.results) :
          LET e == search.response.results[i]
          IN e.t = "dict" /\ HasKey(e, "title") /\ HasKey(e, "url")

\* the text holds exactly n entries, numbered 1 .. n in order, each the title line
\* followed by the URL on the next line
HoldsEntries(text, results, n) ==
    LET ls == Lines(text)
        at == NumberedAt(text)
    IN /\ Cardinality(at) = n
       /\ \A k \in 1 .. n :
             \E i \in at :
                /\ Cardinality({j \in at : j < i}) = k - 1
                /\ ls[i] = ToString(k) \o ". " \o GetItem(results[k], "title").s
                /\ i + 1 <= Len(ls)
                /\ ls[i + 1] = "   " \o GetItem(results[k], "url").s

\* C6: on a successful search with N >= 1 results and a requested count, the returned
\* text holds exactly min(N, count) numbered entries, numbered from 1, each the title
\* line followed by the URL line; never more than count entries.
C6_AtMostCountEntries ==
    Formatted =>
        /\ HoldsEntries(search.ret.s, search.response.results,
                        Min(Len(search.response.results), search.count))
        /\ Cardinality(NumberedAt(search.ret.s)) <= search.count

\* what the code does instead: all N entries, whatever the count
C6_AllEntriesFormatted ==
    Formatted =>
        HoldsEntries(search.ret.s, search.response.results, Len(search.response.results))

\* C7 as stated: a scrape result holding an error key with value Y, whatever its other
\* keys, makes scrape_website return a string beginning "Error from firecrawl_scrape: Y".
C7_ErrorKeyAlwaysGivesErrorString ==
    \A l \in ToolCalls :
        (Yielded(l) /\ l.result.t = "dict" /\ HasKey(l.result, "error"))
            => /\ l.ret.t = "str"
               /\ StartsWith(l.ret.s, "Error from firecrawl_scrape: "
                                      \o Str(GetItem(l.result, "error")))

\* C7 amended: a scrape result holding an error key with value Y and no markdown key
\* makes scrape_website return a string beginning "Error from firecrawl_scrape: Y".
C7_ErrorKeyWithoutMarkdownGivesErrorString ==
    \A l \in ToolCalls :
        (Yielded(l) /\ l.result.t = "dict" /\ HasKey(l.result, "error")
         /\ ~HasKey(l.result, "markdown"))
            => /\ l.ret.t = "str"
               /\ StartsWith(l.ret.s, "Error from firecrawl_scrape: "
                                      \o Str(GetItem(l.result, "error")))

C7_Witness ==
    \E l \in ToolCalls :
        /\ Yielded(l)
        /\ l.result = PyDict(<<KV("success", PyStr("false")), KV("error", PyInt(402))>>)
        /\ l.ret = PyStr("Error from firecrawl_scrape: 402")

\* C8: a scrape result holding a markdown key with value X makes scrape_website return
\* exactly X (no prefix, truncation or wrapping), whatever X and the other keys are.
C8_MarkdownReturnedExactly ==
    \A l \in ToolCalls :
        (Yielded(l) /\ l.result.t = "dict" /\ HasKey(l.result, "markdown"))
            => l.ret = GetItem(l.result, "markdown")

C8_Witness ==
    \E l \in ToolCalls :
        /\ Yielded(l)
        /\ HasKey(l.result, "markdown")
        /\ HasKey(l.result, "metadata")
        /\ l.ret.t = "str"
        /\ Len(l.ret.s) > StructureSliceLen

C10_ToolFailuresMapTo500 ==
    /\ \A l \in ToolCalls : l.path # "markdown" => BeginsWithErrorPrefix(l.ret)
    /\ \A r \in Requests :
          (Responded(r) /\ stack[r][1].relayed)
              => /\ resp[r].status \in {200, 500}
                 /\ resp[r].status = 200
                       => /\ stack[r][1].last.path = "markdown"
                          /\ resp[r].content = stack[r][1].last.ret
                 /\ stack[r][1].last.path # "markdown" => resp[r].status = 500

C10_Witness ==
    \E r \in Requests :
        /\ Responded(r)
        /\ stack[r][1].relayed
        /\ stack[r][1].last.path = "exception"
        /\ resp[r].status = 500
        /\ resp[r].detail = stack[r][1].last.ret.s

====
